---- MODULE Spec2Model ----
\* Watch State Engine of the fib75 bot (src/main.py): the in-memory watch list
\* chat_state, the command handlers add/remove/list/clear, the background
\* poll_job cycle, and save_state.  The handlers and the poller are coroutines
\* on one asyncio loop: a coroutine runs alone until it awaits a network call
\* (fetch_top_pair, send_message, asyncio.sleep), and only there may another
\* coroutine run.
EXTENDS Integers, Sequences, FiniteSets, TLC

\* ---------------------------------------------------------------- bounds
\* Number of entry dicts add_cmd may create in one behaviour.
MaxObjs == 2

Chats == {1}
Contracts == {"A", "B"}
ObjIds == 1..MaxObjs

\* ---------------------------------------------------------------- decimals
\* A text (a Python str) is the sequence of its characters, <<"1", ".", "3", "0">>.
\* Python's None, where a text may stand, is the one-element sequence None.
None == <<"None">>

\* A Decimal as the decimal module holds it: sign (0 or 1), int (the
\* coefficient's digits, most significant first, without leading zeros), exp
\* (the exponent) and special ("" for a finite number, "F" for an infinity,
\* "n" for a NaN).  The value of a finite Decimal is (-1)^sign * int * 10^exp.
\* "!" marks the result of an operation that signalled InvalidOperation, which
\* the default context traps: the operation raised.
Dec(sign, int, exp) == [special |-> "", sign |-> sign, int |-> int, exp |-> exp]
Infinity(sign) == [special |-> "F", sign |-> sign, int |-> <<0>>, exp |-> 0]
NaNDec == [special |-> "n", sign |-> 0, int |-> <<0>>, exp |-> 0]
Raised == [special |-> "!", sign |-> 0, int |-> <<0>>, exp |-> 0]

Zero == Dec(0, <<0>>, 0)

\* The precision of the default context (prec=28, ROUND_HALF_EVEN).
Prec == 28

\* ----- naturals as digit sequences
Zeros(n) == [i \in 1..n |-> 0]
IsZero(ds) == \A i \in 1..Len(ds) : ds[i] = 0

Strip(ds) ==
    IF IsZero(ds) THEN <<0>>
    ELSE SubSeq(ds, CHOOSE i \in 1..Len(ds) : ds[i] # 0 /\ \A j \in 1..(i - 1) : ds[j] = 0,
                Len(ds))

\* The k-th digit from the right.
DigitAt(ds, k) == IF k <= Len(ds) THEN ds[Len(ds) + 1 - k] ELSE 0

RECURSIVE AddFrom(_, _, _, _)
AddFrom(a, b, k, carry) ==
    IF k > Len(a) /\ k > Len(b)
    THEN IF carry = 0 THEN <<>> ELSE <<carry>>
    ELSE Append(AddFrom(a, b, k + 1, (DigitAt(a, k) + DigitAt(b, k) + carry) \div 10),
                (DigitAt(a, k) + DigitAt(b, k) + carry) % 10)
NatAdd(a, b) == Strip(AddFrom(a, b, 1, 0))

\* a - b, for a >= b.
RECURSIVE SubFrom(_, _, _, _)
SubFrom(a, b, k, borrow) ==
    IF k > Len(a) THEN <<>>
    ELSE LET x == DigitAt(a, k) - DigitAt(b, k) - borrow
         IN  Append(SubFrom(a, b, k + 1, IF x < 0 THEN 1 ELSE 0),
                    IF x < 0 THEN x + 10 ELSE x)
NatSub(a, b) == Strip(SubFrom(a, b, 1, 0))

\* a * b by columns: column k (from the right) sums the products of the digits
\* whose places add up to it; Carry turns the column sums into digits.
RECURSIVE ColSum(_, _, _, _)
ColSum(a, b, k, j) ==
    IF j > Len(b) \/ j > k THEN 0
    ELSE DigitAt(a, k - j + 1) * DigitAt(b, j) + ColSum(a, b, k, j + 1)

RECURSIVE Carry(_, _, _)
Carry(cols, k, carry) ==
    IF k > Len(cols)
    THEN IF carry = 0 THEN <<>> ELSE Carry(cols, k, carry \div 10) \o <<carry % 10>>
    ELSE Append(Carry(cols, k + 1, (cols[k] + carry) \div 10), (cols[k] + carry) % 10)

NatMul(a, b) ==
    Strip(Carry([k \in 1..(Len(a) + Len(b)) |-> ColSum(a, b, k, 1)], 1, 0))

\* -1, 0 or 1 as a < b, a = b or a > b; SeqCmp for sequences of one length,
\* NatCmp for naturals without leading zeros.
SeqCmp(a, b) ==
    LET diff == {i \in 1..Len(a) : a[i] # b[i]}
        i == CHOOSE k \in diff : \A m \in diff : k <= m
    IN  IF diff = {} THEN 0 ELSE IF a[i] < b[i] THEN -1 ELSE 1
NatCmp(a, b) ==
    IF Len(a) # Len(b) THEN (IF Len(a) < Len(b) THEN -1 ELSE 1) ELSE SeqCmp(a, b)

\* ----- the context's rounding
\* Decimal._fix: a result of more than prec digits is rounded half-even to
\* prec digits (prec = 0: not rounded, the exact result).
Fix(sign, ds, exp, prec) ==
    IF prec = 0 \/ Len(ds) <= prec THEN Dec(sign, ds, exp)
    ELSE LET keep == SubSeq(ds, 1, prec)
             rest == SubSeq(ds, prec + 1, Len(ds))
             n == Len(rest)
             c == SeqCmp(rest, <<5>> \o Zeros(n - 1))
             up == c > 0 \/ (c = 0 /\ keep[prec] % 2 = 1)
             inc == IF up THEN NatAdd(keep, <<1>>) ELSE keep
         IN  IF Len(inc) > prec
             THEN Dec(sign, SubSeq(inc, 1, prec), exp + n + 1)
             ELSE Dec(sign, inc, exp + n)

Min(x, y) == IF x <= y THEN x ELSE y

\* The coefficient of finite a at exponent exp <= a.exp.
Coeff(a, exp) == Strip(a.int \o Zeros(a.exp - exp))

\* ----- arithmetic (Decimal.__add__, __neg__, __sub__, __mul__) under a
\* context of precision prec
Ctx_add(a, b, prec) ==
    IF a.special = "!" \/ b.special = "!" THEN Raised
    ELSE IF a.special = "n" \/ b.special = "n" THEN NaNDec
    ELSE IF a.special = "F" /\ b.special = "F"
    THEN IF a.sign = b.sign THEN a ELSE Raised
    ELSE IF a.special = "F" THEN a
    ELSE IF b.special = "F" THEN b
    ELSE LET exp == Min(a.exp, b.exp)
             x == Coeff(a, exp)
             y == Coeff(b, exp)
         IN  IF a.sign = b.sign THEN Fix(a.sign, NatAdd(x, y), exp, prec)
             ELSE IF NatCmp(x, y) > 0 THEN Fix(a.sign, NatSub(x, y), exp, prec)
             ELSE IF NatCmp(x, y) < 0 THEN Fix(b.sign, NatSub(y, x), exp, prec)
             ELSE Dec(0, <<0>>, exp)

Decimal_neg(a) == IF a.special \in {"!", "n"} THEN a ELSE [a EXCEPT !.sign = 1 - @]

Ctx_sub(a, b, prec) == Ctx_add(a, Decimal_neg(b), prec)

Ctx_mul(a, b, prec) ==
    IF a.special = "!" \/ b.special = "!" THEN Raised
    ELSE IF a.special = "n" \/ b.special = "n" THEN NaNDec
    ELSE IF a.special = "F" \/ b.special = "F"
    THEN IF (a.special = "" /\ IsZero(a.int)) \/ (b.special = "" /\ IsZero(b.int))
         THEN Raised
         ELSE Infinity((a.sign + b.sign) % 2)
    ELSE Fix((a.sign + b.sign) % 2, NatMul(a.int, b.int), a.exp + b.exp, prec)

Decimal_add(a, b) == Ctx_add(a, b, Prec)
Decimal_sub(a, b) == Ctx_sub(a, b, Prec)
Decimal_mul(a, b) == Ctx_mul(a, b, Prec)

\* ----- comparison (Decimal._cmp), for operands that are no NaN: -1, 0 or 1
Signum(a) == IF a.special = "" /\ IsZero(a.int) THEN 0 ELSE IF a.sign = 1 THEN -1 ELSE 1
Decimal_cmp(a, b) ==
    IF Signum(a) # Signum(b) THEN (IF Signum(a) < Signum(b) THEN -1 ELSE 1)
    ELSE IF Signum(a) = 0 THEN 0
    ELSE IF a.special = "F" \/ b.special = "F"
    THEN IF a.special = b.special THEN 0
         ELSE IF a.special = "F" THEN Signum(a) ELSE 0 - Signum(a)
    ELSE Signum(a) * NatCmp(Coeff(a, Min(a.exp, b.exp)), Coeff(b, Min(a.exp, b.exp)))

\* a < b and a <= b signal InvalidOperation when an operand is a NaN.
Decimal_cmp_raises(a, b) == a.special \in {"n", "!"} \/ b.special \in {"n", "!"}
Decimal_lt(a, b) == Decimal_cmp(a, b) < 0
Decimal_le(a, b) == Decimal_cmp(a, b) <= 0

\* ----- texts
Digits == <<"0", "1", "2", "3", "4", "5", "6", "7", "8", "9">>
IsDigit(ch) == \E d \in 1..10 : Digits[d] = ch
DigitVal(ch) == (CHOOSE d \in 1..10 : Digits[d] = ch) - 1
AllDigits(s) == \A i \in 1..Len(s) : IsDigit(s[i])
DigitsOf(s) == [i \in 1..Len(s) |-> DigitVal(s[i])]
DigitText(ds) == [i \in 1..Len(ds) |-> Digits[ds[i] + 1]]

\* int(s) for a text of digits, and str(n) for an integer.
RECURSIVE NatOf(_)
NatOf(s) == IF s = <<>> THEN 0 ELSE 10 * NatOf(SubSeq(s, 1, Len(s) - 1)) + DigitVal(s[Len(s)])
RECURSIVE NatStr(_)
NatStr(n) == IF n < 10 THEN <<Digits[n + 1]>> ELSE Append(NatStr(n \div 10), Digits[(n % 10) + 1])
IntStr(n) == IF n < 0 THEN <<"-">> \o NatStr(0 - n) ELSE NatStr(n)

\* The first position of a character among chars in s, 0 when there is none.
Find(s, chars) ==
    IF \E i \in 1..Len(s) : s[i] \in chars
    THEN CHOOSE i \in 1..Len(s) : s[i] \in chars /\ \A j \in 1..(i - 1) : s[j] \notin chars
    ELSE 0

\* int(chat_key): <<n>>, or <<>> when int() raises ValueError.
ParseInt(s) ==
    LET signed == s # <<>> /\ s[1] \in {"-", "+"}
        body == IF signed THEN Tail(s) ELSE s
    IN  IF body = <<>> \/ ~AllDigits(body) THEN <<>>
        ELSE IF signed /\ s[1] = "-" THEN <<0 - NatOf(body)>> ELSE <<NatOf(body)>>

\* Decimal(s): <<the Decimal>>, or <<>> when the constructor raises
\* InvalidOperation.  The grammar is [sign] digits [. digits] [E [sign] digits],
\* NaN, Infinity; the constructor does not round.  (The other spellings the
\* decimal module accepts, such as inf, sNaN or 1_000, are not part of it.)
Decimal(s) ==
    LET signed == s # <<>> /\ s[1] \in {"-", "+"}
        sign == IF signed /\ s[1] = "-" THEN 1 ELSE 0
        body == IF signed THEN Tail(s) ELSE s
        e == Find(body, {"E", "e"})
        mant == IF e = 0 THEN body ELSE SubSeq(body, 1, e - 1)
        expt == IF e = 0 THEN <<"0">> ELSE SubSeq(body, e + 1, Len(body))
        dot == Find(mant, {"."})
        intpart == IF dot = 0 THEN mant ELSE SubSeq(mant, 1, dot - 1)
        fracpart == IF dot = 0 THEN <<>> ELSE SubSeq(mant, dot + 1, Len(mant))
    IN  IF s = None THEN <<>>
        ELSE IF body = <<"N", "a", "N">> THEN <<[NaNDec EXCEPT !.sign = sign]>>
        ELSE IF body = <<"I", "n", "f", "i", "n", "i", "t", "y">> THEN <<Infinity(sign)>>
        ELSE IF ~AllDigits(intpart) \/ ~AllDigits(fracpart) \/ intpart \o fracpart = <<>>
        THEN <<>>
        ELSE IF ParseInt(expt) = <<>> THEN <<>>
        ELSE <<Dec(sign, Strip(DigitsOf(intpart \o fracpart)),
                   ParseInt(expt)[1] - Len(fracpart))>>

\* str(d), Decimal.__str__: the scientific string of the number.
DecStr(d) ==
    LET minus == IF d.sign = 1 THEN <<"-">> ELSE <<>>
        n == Len(d.int)
        leftdigits == d.exp + n
        dotplace == IF d.exp <= 0 /\ leftdigits > -6 THEN leftdigits ELSE 1
        txt == DigitText(d.int)
        intpart == IF dotplace <= 0 THEN <<"0">>
                   ELSE IF dotplace >= n THEN txt \o DigitText(Zeros(dotplace - n))
                   ELSE SubSeq(txt, 1, dotplace)
        fracpart == IF dotplace <= 0 THEN <<".">> \o DigitText(Zeros(0 - dotplace)) \o txt
                    ELSE IF dotplace >= n THEN <<>>
                    ELSE <<".">> \o SubSeq(txt, dotplace + 1, n)
        expt == IF leftdigits = dotplace THEN <<>>
                ELSE <<"E">> \o (IF leftdigits - dotplace < 0 THEN <<>> ELSE <<"+">>)
                     \o IntStr(leftdigits - dotplace)
    IN  IF d.special = "n" THEN minus \o <<"N", "a", "N">>
        ELSE IF d.special = "F" THEN minus \o <<"I", "n", "f", "i", "n", "i", "t", "y">>
        ELSE minus \o intpart \o fracpart \o expt

\* ----- the band
Quarter == Dec(0, <<2, 5>>, -2)
BandLow == Dec(0, <<9, 8>>, -2)
BandHigh == Dec(0, <<1, 0, 2>>, -2)

compute_fib75(L, H) == Decimal_add(L, Decimal_mul(Quarter, Decimal_sub(H, L)))

band_bounds(fib75) == <<Decimal_mul(fib75, BandLow), Decimal_mul(fib75, BandHigh)>>

\* lo <= price <= hi on Decimals signals InvalidOperation when price is NaN.
within_band_raises(price) == price.special = "n"

\* A faulty within_band: the bounds taken in the wrong order.
within_band_swapped(price, lo, hi) == Decimal_le(hi, price) /\ Decimal_le(price, lo)

within_band(price, lo, hi) == Decimal_le(lo, price) /\ Decimal_le(price, hi)

\* ---------------------------------------------------------------- price source
\* What fetch_top_pair can return: None (request failed, timed out, no Solana
\* pair) or the best pair, whose priceUsd may be missing, unparseable, NaN or a
\* number.
PriceStrs == {None, <<"a", "b", "c">>, <<"N", "a", "N">>, <<"1", ".", "2", "5">>,
              <<"1", ".", "3", "0">>}
Pairs == [url : {"u"}, dexId : {"dex"}, base : {"TKN"}, quote : {"SOL"}, priceUsd : PriceStrs]
NoPair == [url |-> "", dexId |-> "", base |-> "", quote |-> "", priceUsd |-> None]
fetch_top_pair == {NoPair} \cup Pairs

get_price_usd_from_pair(pair) ==
    IF pair.priceUsd = None THEN <<>> ELSE Decimal(pair.priceUsd)

build_pair_url(pair) == IF pair.url # "" THEN pair.url ELSE "https://dexscreener.com/solana"

\* st["pair"]: {} or the metadata kept from a fetched pair.
EmptyMeta == [url |-> "", dex |-> "", base |-> "", quote |-> ""]
PairMeta(pair) == [url |-> build_pair_url(pair), dex |-> pair.dexId, base |-> pair.base, quote |-> pair.quote]
AutoName(pair) == IF pair.base # "" /\ pair.quote # "" THEN pair.base \o "/" \o pair.quote ELSE pair.base

\* ---------------------------------------------------------------- state
VARIABLES
    chat_state,  \* the watch list: chats in insertion order, each with its dict of entries
    heap,        \* the entry dicts, by identity: poll_job and list_cmd hold references
    nobjs,       \* entry dicts created so far
    disk,        \* the file at STATE_PATH: <<>> (no file) or <<its content>>
    tmp,         \* the file at STATE_PATH + ".tmp", likewise
    proc,        \* the process: where main() or a running save_state() stands
    poll,        \* poll_loop / poll_job: position and locals
    lst,         \* list_cmd: position and locals
    add,         \* add_cmd: position and locals
    sink,        \* send_message calls made, per entry dict
    hist         \* history of each entry dict, for stating the properties:
                 \* span, the alerts sent since its last evaluation outside the
                 \* band; failed_first, whether a fetch failed for it while it
                 \* has not yet completed an evaluation with a price

vars == <<chat_state, heap, nobjs, disk, tmp, proc, poll, lst, add, sink, hist>>

\* ---------------------------------------------------------------- dict
\* A CPython dict is an array of slots in insertion order: pop leaves a hole,
\* a new key is appended, an existing key is overwritten in place, clear empties
\* the array.  (A dict of at most 5 slots is never compacted.)
Tomb == [key |-> "", val |-> 0]
Slot(contract, o) == [key |-> contract, val |-> o]

DictItems(dct) == SelectSeq(dct, LAMBDA s : s # Tomb)
DictUsed(dct) == Len(DictItems(dct))
DictKeys(dct) == {dct[i].key : i \in {j \in 1..Len(dct) : dct[j] # Tomb}}
DictIdx(dct, contract) ==
    IF contract \in DictKeys(dct)
    THEN CHOOSE i \in 1..Len(dct) : dct[i].key = contract
    ELSE 0
DictGet(dct, contract) == dct[DictIdx(dct, contract)].val
DictSet(dct, contract, o) ==
    IF DictIdx(dct, contract) # 0
    THEN [dct EXCEPT ![DictIdx(dct, contract)] = Slot(contract, o)]
    ELSE Append(dct, Slot(contract, o))
DictPop(dct, contract) ==
    IF DictIdx(dct, contract) # 0
    THEN [dct EXCEPT ![DictIdx(dct, contract)] = Tomb]
    ELSE dct

RECURSIVE DictPopAll(_, _)
DictPopAll(dct, cs) ==
    IF cs = <<>> THEN dct ELSE DictPopAll(DictPop(dct, Head(cs)), Tail(cs))

\* chat_state[chat_id], for a chat_id that is in chat_state.
ChatIds(cs) == {cs[i].chat_id : i \in 1..Len(cs)}
ChatIdx(cs, chat_id) == CHOOSE i \in 1..Len(cs) : cs[i].chat_id = chat_id
Contracts_of(cs, chat_id) == cs[ChatIdx(cs, chat_id)].contracts
SetContracts(cs, chat_id, dct) == [cs EXCEPT ![ChatIdx(cs, chat_id)].contracts = dct]

ensure_chat(cs, chat_id) ==
    IF chat_id \in ChatIds(cs) THEN cs
    ELSE Append(cs, [chat_id |-> chat_id, contracts |-> <<>>])

\* The entry dicts reachable from chat_state (the tracked entries).
Tracked(cs) ==
    UNION {{cs[i].contracts[j].val : j \in 1..Len(cs[i].contracts)} : i \in 1..Len(cs)} \ {0}

\* ---------------------------------------------------------------- persistence
EntryToJson(st) ==
    [name |-> st.name, L |-> DecStr(st.L), H |-> DecStr(st.H), fib75 |-> DecStr(st.fib75),
     band |-> <<DecStr(st.band[1]), DecStr(st.band[2])>>,
     status |-> st.status, first_tick |-> st.first_tick, alerts_sent |-> st.alerts_sent,
     pair |-> st.pair,
     last_price |-> IF st.last_price = <<>> THEN None ELSE DecStr(st.last_price[1])]

state_to_jsonable(cs, h) ==
    [i \in 1..Len(cs) |->
        [chat_key |-> IntStr(cs[i].chat_id),
         contracts |-> [j \in 1..Len(DictItems(cs[i].contracts)) |->
            [contract |-> DictItems(cs[i].contracts)[j].key,
             st |-> EntryToJson(h[DictItems(cs[i].contracts)[j].val])]]]]

\* What a file holds: the JSON document data, whole, or (cut) only the start of
\* its text, down to the blocks of data, when the writer stopped before the end.
File(data) == [data |-> data, cut |-> FALSE]
Partial(data) == [data |-> data, cut |-> TRUE]

\* save_state(), run from start to end in one step: what the file at STATE_PATH
\* can hold after the call, given what it held.  The write is taken to
\* succeed: the snapshot replaces the file.
save_state(cs, h, old) == {<<File(state_to_jsonable(cs, h))>>}

\* The collection as a value: the chats in order, each with its entries in
\* order, each entry with its fields (what == compares in Python).
CollectionValue(cs, h) ==
    [i \in 1..Len(cs) |->
        [chat_id |-> cs[i].chat_id,
         contracts |-> [j \in 1..Len(DictItems(cs[i].contracts)) |->
            [contract |-> DictItems(cs[i].contracts)[j].key,
             st |-> h[DictItems(cs[i].contracts)[j].val]]]]]

\* A faulty JsonToEntry: the text of last_price is not made a Decimal again,
\* the price is dropped.
JsonToEntry_drops_last_price(st) ==
    [name |-> IF "name" \in DOMAIN st THEN st.name ELSE "",
     L |-> IF Decimal(st.L) = <<>> THEN Zero ELSE Decimal(st.L)[1],
     H |-> IF Decimal(st.H) = <<>> THEN Zero ELSE Decimal(st.H)[1],
     fib75 |-> IF Decimal(st.fib75) = <<>> THEN Zero ELSE Decimal(st.fib75)[1],
     band |-> IF Decimal(st.band[1]) = <<>> \/ Decimal(st.band[2]) = <<>>
              THEN <<Zero, Zero>>
              ELSE <<Decimal(st.band[1])[1], Decimal(st.band[2])[1]>>,
     status |-> IF "status" \in DOMAIN st THEN st.status ELSE "outside",
     first_tick |-> IF "first_tick" \in DOMAIN st THEN st.first_tick ELSE TRUE,
     alerts_sent |-> IF "alerts_sent" \in DOMAIN st THEN st.alerts_sent ELSE 0,
     pair |-> IF "pair" \in DOMAIN st THEN st.pair ELSE EmptyMeta,
     last_price |-> <<>>]

\* Lines 79-98 for one entry st of the document (a JSON object: a function
\* from its keys): the texts of L, H, fib75, band and last_price become
\* Decimals again, and the keys that are missing get their defaults.
JsonToEntry(st) ==
    [name |-> IF "name" \in DOMAIN st THEN st.name ELSE "",
     L |-> IF Decimal(st.L) = <<>> THEN Zero ELSE Decimal(st.L)[1],
     H |-> IF Decimal(st.H) = <<>> THEN Zero ELSE Decimal(st.H)[1],
     fib75 |-> IF Decimal(st.fib75) = <<>> THEN Zero ELSE Decimal(st.fib75)[1],
     band |-> IF Decimal(st.band[1]) = <<>> \/ Decimal(st.band[2]) = <<>>
              THEN <<Zero, Zero>>
              ELSE <<Decimal(st.band[1])[1], Decimal(st.band[2])[1]>>,
     status |-> IF "status" \in DOMAIN st THEN st.status ELSE "outside",
     first_tick |-> IF "first_tick" \in DOMAIN st THEN st.first_tick ELSE TRUE,
     alerts_sent |-> IF "alerts_sent" \in DOMAIN st THEN st.alerts_sent ELSE 0,
     pair |-> IF "pair" \in DOMAIN st THEN st.pair ELSE EmptyMeta,
     last_price |-> IF st.last_price = None THEN <<>> ELSE Decimal(st.last_price)]

\* restored[chat_id] = contracts, on the dict restored (in insertion order).
Restore(restored, chat_id, contracts) ==
    IF \E i \in 1..Len(restored) : restored[i].chat_id = chat_id
    THEN [restored EXCEPT
            ![CHOOSE i \in 1..Len(restored) : restored[i].chat_id = chat_id].contracts = contracts]
    ELSE Append(restored, [chat_id |-> chat_id, contracts |-> contracts])

\* Lines 72-98 from block k of the document on: a block whose key int()
\* cannot parse is skipped.
RECURSIVE jsonable_to_state_from(_, _, _)
jsonable_to_state_from(data, k, restored) ==
    IF k > Len(data) THEN restored
    ELSE jsonable_to_state_from(data, k + 1,
            IF ParseInt(data[k].chat_key) = <<>> THEN restored
            ELSE Restore(restored, ParseInt(data[k].chat_key)[1],
                    [j \in 1..Len(data[k].contracts) |->
                        [contract |-> data[k].contracts[j].contract,
                         st |-> JsonToEntry(data[k].contracts[j].st)]]))

\* _jsonable_to_state(data): the collection, as a value.
jsonable_to_state(data) == jsonable_to_state_from(data, 1, <<>>)

\* ---------------------------------------------------------------- initial state
NoEntry == [name |-> "", L |-> Zero, H |-> Zero, fib75 |-> Zero, band |-> <<Zero, Zero>>,
            status |-> "", first_tick |-> FALSE, alerts_sent |-> 0,
            pair |-> EmptyMeta, last_price |-> <<>>]

PollIdle == [pc |-> "sleep", chats |-> <<>>, chat_id |-> 0, items |-> <<>>,
             contract |-> "", st |-> 0, to_remove |-> <<>>, changed |-> FALSE,
             price |-> <<>>, send_failed |-> FALSE]

ListIdle == [pc |-> "idle", chat_id |-> 0, pos |-> 0, used |-> 0, len |-> 0,
             contract |-> "", st |-> 0, lines |-> <<>>]

AddIdle == [pc |-> "idle", chat_id |-> 0, contract |-> "", L |-> Zero, H |-> Zero,
            name_given |-> ""]

NoHist == [span |-> 0, failed_first |-> FALSE]

\* The process is up: main() has loaded the state and no save_state() is under way.
Running == [pc |-> "run", data |-> <<>>]

\* The bot starts without a state file: load_state() returns at line 117.
Init ==
    /\ chat_state = <<>>
    /\ heap = [o \in ObjIds |-> NoEntry]
    /\ nobjs = 0
    /\ disk = <<>>
    /\ tmp = <<>>
    /\ proc = Running
    /\ poll = PollIdle
    /\ lst = ListIdle
    /\ add = AddIdle
    /\ sink = [o \in ObjIds |-> 0]
    /\ hist = [o \in ObjIds |-> NoHist]

\* A coroutine is suspended when it sits in an await of a network call (or has
\* not been started); only then may another coroutine run.
PollSuspended == poll.pc \in {"sleep", "fetch", "send"}
ListSuspended == lst.pc \in {"idle", "fetch"}

\* CPython frees a dict when the last reference to it goes.  An entry dict is
\* referenced by chat_state, by poll_job's snapshot and its local st, and by
\* list_cmd's local st.  Every action ends with Release(h, sk, hs): its heap h,
\* alerts sk and history hs, kept for the entries still referenced after it.
Live(cs, pl, ls) ==
    Tracked(cs) \cup {pl.items[i].val : i \in 1..Len(pl.items)} \cup ({pl.st, ls.st} \ {0})

Release(h, sk, hs) ==
    LET live == Live(chat_state', poll', lst')
    IN  /\ heap' = [o \in ObjIds |-> IF o \in live THEN h[o] ELSE NoEntry]
        /\ sink' = [o \in ObjIds |-> IF o \in live THEN sk[o] ELSE 0]
        /\ hist' = [o \in ObjIds |-> IF o \in live THEN hs[o] ELSE NoHist]

\* ---------------------------------------------------------------- add_cmd
\* What add_cmd was given: /add <contract> <low_usd> <high_usd> [name].
LowStrs == {<<"-", "1">>, <<"1">>, <<"2">>, <<"a", "b", "c">>}
HighStrs == {<<"2">>}
NamesGiven == {""}

\* Lines 200-206: "ok", or the rejection replied.
add_validate(Ls, Hs) ==
    IF Decimal(Ls) = <<>> \/ Decimal(Hs) = <<>> THEN "not_numbers"
    ELSE IF Decimal_cmp_raises(Decimal(Ls)[1], Decimal(Hs)[1]) THEN "not_numbers"
    ELSE IF ~Decimal_lt(Decimal(Ls)[1], Decimal(Hs)[1]) THEN "low_not_below_high"
    ELSE "ok"

\* Lines 220-230: the entry add_cmd stores.
NewEntry(display_name, L, H) ==
    [name |-> display_name, L |-> L, H |-> H,
     fib75 |-> compute_fib75(L, H),
     band |-> band_bounds(compute_fib75(L, H)),
     status |-> "outside", first_tick |-> TRUE, alerts_sent |-> 0,
     pair |-> EmptyMeta, last_price |-> <<>>]

\* Lines 189-211: validation, up to the await of fetch_top_pair; a rejected
\* command replies and ends here.
add_cmd_begin(chat_id, contract, Ls, Hs, name_given) ==
    /\ add.pc = "idle" /\ PollSuspended /\ ListSuspended
    /\ nobjs < MaxObjs
    /\ chat_state' = ensure_chat(chat_state, chat_id)
    /\ IF add_validate(Ls, Hs) # "ok"
       THEN add' = AddIdle
       ELSE add' = [pc |-> "fetch", chat_id |-> chat_id, contract |-> contract,
                    L |-> Decimal(Ls)[1], H |-> Decimal(Hs)[1],
                    name_given |-> name_given]
    /\ UNCHANGED <<nobjs, disk, poll, lst, tmp, proc>>
    /\ Release(heap, sink, hist)

\* Lines 212-240: fetch_top_pair has returned.
add_cmd_resume(pair) ==
    /\ add.pc = "fetch" /\ PollSuspended /\ ListSuspended
    /\ add' = AddIdle
    /\ UNCHANGED <<poll, lst, tmp, proc>>
    /\ IF pair = NoPair
       THEN /\ UNCHANGED <<chat_state, nobjs, disk>>
            /\ Release(heap, sink, hist)
       ELSE LET o == nobjs + 1
                display_name == IF add.name_given # "" THEN add.name_given ELSE AutoName(pair)
                h == [heap EXCEPT ![o] = NewEntry(display_name, add.L, add.H)]
            IN  /\ nobjs' = o
                /\ chat_state' = SetContracts(chat_state, add.chat_id,
                        DictSet(Contracts_of(chat_state, add.chat_id), add.contract, o))
                /\ disk' \in save_state(chat_state', h, disk)
                /\ Release(h, sink, hist)

\* ---------------------------------------------------------------- remove_cmd, clear_cmd
\* Lines 243-250.
remove_cmd(chat_id, contract) ==
    /\ PollSuspended /\ ListSuspended
    /\ chat_state' = SetContracts(ensure_chat(chat_state, chat_id), chat_id,
            DictPop(Contracts_of(ensure_chat(chat_state, chat_id), chat_id), contract))
    /\ disk' \in save_state(chat_state', heap, disk)
    /\ UNCHANGED <<nobjs, poll, lst, add, tmp, proc>>
    /\ Release(heap, sink, hist)

\* Lines 292-295.
clear_cmd(chat_id) ==
    /\ PollSuspended /\ ListSuspended
    /\ chat_state' = SetContracts(ensure_chat(chat_state, chat_id), chat_id, <<>>)
    /\ disk' \in save_state(chat_state', heap, disk)
    /\ UNCHANGED <<nobjs, poll, lst, add, tmp, proc>>
    /\ Release(heap, sink, hist)

\* ---------------------------------------------------------------- list_cmd
\* One line of the reply: the contract and the "Alerts: n/2" shown for it.
ListLine(contract, st) == <<contract, st.alerts_sent>>

\* Lines 257-265: up to the creation of the iterator over chat_state[chat_id].items().
list_cmd_begin(chat_id) ==
    /\ lst.pc = "idle" /\ PollSuspended
    /\ chat_state' = ensure_chat(chat_state, chat_id)
    /\ IF DictUsed(Contracts_of(chat_state', chat_id)) = 0
       THEN lst' = ListIdle
       ELSE lst' = [ListIdle EXCEPT !.pc = "next", !.chat_id = chat_id,
                        !.used = DictUsed(Contracts_of(chat_state', chat_id)),
                        !.len = DictUsed(Contracts_of(chat_state', chat_id))]
    /\ UNCHANGED <<nobjs, disk, poll, add, tmp, proc>>
    /\ Release(heap, sink, hist)

\* The slots of the live dict after position pos.
SlotsAfter(dct, pos) == {i \in 1..Len(dct) : i > pos /\ dct[i] # Tomb}

\* Line 265, the iterator's next() on the live dict, and lines 266-272 and
\* 282-287: RuntimeError when the dict changed size (or an unexpected slot
\* turns up), the end of the loop when the iterator is exhausted, else the
\* loop body up to the await of fetch_top_pair, or the whole body when the
\* url is cached.
list_cmd_next ==
    /\ lst.pc = "next" /\ PollSuspended
    /\ LET dct == Contracts_of(chat_state, lst.chat_id)
           nxt == SlotsAfter(dct, lst.pos)
           i == CHOOSE k \in nxt : \A m \in nxt : k <= m
       IN  IF DictUsed(dct) # lst.used
           THEN lst' = [lst EXCEPT !.pc = "raised"]
           ELSE IF nxt = {}
           THEN lst' = [lst EXCEPT !.pc = "reply"]
           ELSE IF lst.len = 0
           THEN lst' = [lst EXCEPT !.pc = "raised"]
           ELSE IF heap[dct[i].val].pair.url = ""
           THEN lst' = [lst EXCEPT !.pc = "fetch", !.pos = i, !.len = @ - 1,
                            !.contract = dct[i].key, !.st = dct[i].val]
           ELSE lst' = [lst EXCEPT !.pos = i, !.len = @ - 1,
                            !.contract = dct[i].key, !.st = dct[i].val,
                            !.lines = Append(@, ListLine(dct[i].key, heap[dct[i].val]))]
    /\ UNCHANGED <<chat_state, nobjs, disk, poll, add, tmp, proc>>
    /\ Release(heap, sink, hist)

\* Lines 273-287: fetch_top_pair has returned.
list_cmd_resume(p) ==
    /\ lst.pc = "fetch" /\ PollSuspended
    /\ lst' = [lst EXCEPT !.pc = "next",
                    !.lines = Append(@, ListLine(lst.contract, heap[lst.st]))]
    /\ UNCHANGED <<chat_state, nobjs, disk, poll, add, tmp, proc>>
    /\ Release(IF p = NoPair THEN heap ELSE [heap EXCEPT ![lst.st].pair = PairMeta(p)],
               sink, hist)

\* Line 289: the reply is sent and the handler returns; or the RuntimeError
\* leaves the handler (the dispatcher logs it) and nothing is replied.
list_cmd_end ==
    /\ lst.pc \in {"reply", "raised"} /\ PollSuspended
    /\ lst' = ListIdle
    /\ UNCHANGED <<chat_state, nobjs, disk, poll, add, tmp, proc>>
    /\ Release(heap, sink, hist)

\* ---------------------------------------------------------------- poll_job
\* A faulty alert_triggered: the status and first_tick are not looked at.
alert_triggered_any_inside(st, inside) == inside

\* Line 320.
alert_triggered(st, inside) == inside /\ (st.status = "outside" \/ st.first_tick)

\* Lines 312-317: the pair metadata and, when the name is empty, the name.
with_pair(st, pair) ==
    [st EXCEPT !.pair = PairMeta(pair),
               !.name = IF st.name = "" THEN AutoName(pair) ELSE st.name]

\* Lines 358-362 and 300-301: a cycle starts; the chats are snapshotted.
poll_job_start ==
    /\ poll.pc = "sleep" /\ ListSuspended
    /\ poll' = [PollIdle EXCEPT !.pc = "chats",
                    !.chats = [i \in 1..Len(chat_state) |-> chat_state[i].chat_id]]
    /\ UNCHANGED <<chat_state, nobjs, disk, lst, add, tmp, proc>>
    /\ Release(heap, sink, hist)

\* Lines 301-303: the next chat; its entries are snapshotted.
poll_job_next_chat ==
    /\ poll.pc = "chats" /\ ListSuspended
    /\ poll.chats # <<>>
    /\ poll' = [poll EXCEPT !.pc = "items", !.chat_id = Head(poll.chats),
                    !.chats = Tail(poll.chats), !.to_remove = <<>>,
                    !.items = DictItems(Contracts_of(chat_state, Head(poll.chats)))]
    /\ UNCHANGED <<chat_state, nobjs, disk, lst, add, tmp, proc>>
    /\ Release(heap, sink, hist)

\* Lines 348-349 and 365: all chats done; save if anything changed, then sleep.
poll_job_finish ==
    /\ poll.pc = "chats" /\ ListSuspended
    /\ poll.chats = <<>>
    /\ disk' \in IF poll.changed THEN save_state(chat_state, heap, disk) ELSE {disk}
    /\ poll' = PollIdle
    /\ UNCHANGED <<chat_state, nobjs, lst, add, tmp, proc>>
    /\ Release(heap, sink, hist)

\* Lines 303-305: an entry that already has two alerts is queued for removal.
poll_job_retired ==
    /\ poll.pc = "items" /\ ListSuspended
    /\ poll.items # <<>>
    /\ heap[Head(poll.items).val].alerts_sent >= 2
    /\ poll' = [poll EXCEPT !.items = Tail(@), !.changed = TRUE, !.send_failed = FALSE,
                    !.contract = Head(poll.items).key, !.st = Head(poll.items).val,
                    !.to_remove = Append(@, Head(poll.items).key)]
    /\ UNCHANGED <<chat_state, nobjs, disk, lst, add, tmp, proc>>
    /\ Release(heap, sink, hist)

\* Lines 303-306: the next entry, up to the await of fetch_top_pair.
poll_job_fetch ==
    /\ poll.pc = "items" /\ ListSuspended
    /\ poll.items # <<>>
    /\ heap[Head(poll.items).val].alerts_sent < 2
    /\ poll' = [poll EXCEPT !.pc = "fetch", !.items = Tail(@), !.price = <<>>,
                    !.send_failed = FALSE,
                    !.contract = Head(poll.items).key, !.st = Head(poll.items).val]
    /\ UNCHANGED <<chat_state, nobjs, disk, lst, add, tmp, proc>>
    /\ Release(heap, sink, hist)

\* Lines 346-347: the chat's entries are done; the queued keys are popped.
poll_job_pops ==
    /\ poll.pc = "items" /\ ListSuspended
    /\ poll.items = <<>>
    /\ chat_state' = SetContracts(chat_state, poll.chat_id,
            DictPopAll(Contracts_of(chat_state, poll.chat_id), poll.to_remove))
    /\ poll' = [poll EXCEPT !.pc = "chats", !.to_remove = <<>>, !.send_failed = FALSE,
                    !.contract = "", !.st = 0, !.price = <<>>]
    /\ UNCHANGED <<nobjs, disk, lst, add, tmp, proc>>
    /\ Release(heap, sink, hist)

\* A faulty poll_job_no_price: the pair metadata (lines 312-314) is stored
\* before the price is looked at.
poll_job_no_price_stores_pair(pair) ==
    /\ poll.pc = "fetch" /\ ListSuspended
    /\ pair = NoPair \/ get_price_usd_from_pair(pair) = <<>>
    /\ poll' = [poll EXCEPT !.pc = "items"]
    /\ UNCHANGED <<chat_state, nobjs, disk, lst, add, tmp, proc>>
    /\ Release(IF pair = NoPair THEN heap
               ELSE [heap EXCEPT ![poll.st].pair = PairMeta(pair)], sink,
               [hist EXCEPT ![poll.st].failed_first = @ \/ heap[poll.st].last_price = <<>>])

\* Lines 306-311: the fetch gave no pair, or the pair no usable price.
poll_job_no_price(pair) ==
    /\ poll.pc = "fetch" /\ ListSuspended
    /\ pair = NoPair \/ get_price_usd_from_pair(pair) = <<>>
    /\ poll' = [poll EXCEPT !.pc = "items"]
    /\ UNCHANGED <<chat_state, nobjs, disk, lst, add, tmp, proc>>
    /\ Release(heap, sink,
               [hist EXCEPT ![poll.st].failed_first = @ \/ heap[poll.st].last_price = <<>>])

\* Lines 306-319: the price is NaN; within_band raises InvalidOperation, which
\* leaves poll_job with the rest of the cycle undone.
poll_job_raises(pair) ==
    /\ poll.pc = "fetch" /\ ListSuspended
    /\ pair # NoPair /\ get_price_usd_from_pair(pair) # <<>>
    /\ within_band_raises(get_price_usd_from_pair(pair)[1])
    /\ poll' = [poll EXCEPT !.pc = "raised",
                    !.price = get_price_usd_from_pair(pair),
                    !.changed = @ \/ heap[poll.st].name = ""]
    /\ UNCHANGED <<chat_state, nobjs, disk, lst, add, tmp, proc>>
    /\ Release([heap EXCEPT ![poll.st] = with_pair(@, pair)], sink, hist)

\* A faulty poll_loop_except: what poll_job raised is not caught, and ends
\* the poll_loop task.
poll_loop_dies ==
    /\ poll.pc = "raised" /\ ListSuspended
    /\ poll' = [PollIdle EXCEPT !.pc = "dead"]
    /\ UNCHANGED <<chat_state, nobjs, disk, lst, add, tmp, proc>>
    /\ Release(heap, sink, hist)

\* Lines 363-365: poll_loop catches what poll_job raised, logs it and sleeps.
poll_loop_except ==
    /\ poll.pc = "raised" /\ ListSuspended
    /\ poll' = PollIdle
    /\ UNCHANGED <<chat_state, nobjs, disk, lst, add, tmp, proc>>
    /\ Release(heap, sink, hist)

\* Lines 306-336: the price triggers an alert; up to the await of send_message
\* (which is skipped for a third alert).
poll_job_alert(pair) ==
    /\ poll.pc = "fetch" /\ ListSuspended
    /\ pair # NoPair /\ get_price_usd_from_pair(pair) # <<>>
    /\ ~within_band_raises(get_price_usd_from_pair(pair)[1])
    /\ LET price == get_price_usd_from_pair(pair)[1]
           st == with_pair(heap[poll.st], pair)
           inside == within_band(price, st.band[1], st.band[2])
       IN  /\ alert_triggered(st, inside)
           /\ poll' = [poll EXCEPT !.changed = TRUE, !.price = <<price>>,
                    !.pc = IF st.alerts_sent + 1 <= 2 THEN "send" ELSE "skip_send"]
           /\ UNCHANGED <<chat_state, nobjs, disk, lst, add, tmp, proc>>
           /\ Release([heap EXCEPT ![poll.st] =
                            [st EXCEPT !.alerts_sent = @ + 1, !.status = "inside",
                                       !.first_tick = FALSE]],
                      IF st.alerts_sent + 1 <= 2
                      THEN [sink EXCEPT ![poll.st] = @ + 1] ELSE sink,
                      [hist EXCEPT ![poll.st].span = @ + 1])

\* Lines 336 and 339-345: send_message has returned, or it was skipped: the
\* entry is queued for removal at two alerts; last_price is set.
poll_job_sent ==
    /\ poll.pc \in {"send", "skip_send"} /\ ListSuspended
    /\ poll' = [poll EXCEPT !.pc = "items",
                    !.to_remove = IF heap[poll.st].alerts_sent >= 2
                                  THEN Append(@, poll.contract) ELSE @]
    /\ UNCHANGED <<chat_state, nobjs, disk, lst, add, tmp, proc>>
    /\ Release([heap EXCEPT ![poll.st].last_price = poll.price], sink,
               [hist EXCEPT ![poll.st].failed_first = FALSE])

\* A faulty poll_job_send_failed: the alert that was not delivered is taken
\* back (alerts_sent, status and first_tick as they were before it).
poll_job_send_failed_rolls_back ==
    /\ poll.pc = "send" /\ ListSuspended
    /\ poll' = [poll EXCEPT !.pc = "items", !.send_failed = TRUE]
    /\ UNCHANGED <<chat_state, nobjs, disk, lst, add, tmp, proc>>
    /\ Release([heap EXCEPT ![poll.st].alerts_sent = @ - 1, ![poll.st].status = "outside",
                            ![poll.st].first_tick = heap[poll.st].last_price = <<>>,
                            ![poll.st].last_price = poll.price], sink,
               [hist EXCEPT ![poll.st].failed_first = FALSE])

\* Lines 336-345: send_message has raised; the exception is caught and logged
\* (lines 337-338), and the loop body goes on as after a delivered alert.
poll_job_send_failed ==
    /\ poll.pc = "send" /\ ListSuspended
    /\ poll' = [poll EXCEPT !.pc = "items", !.send_failed = TRUE,
                    !.to_remove = IF heap[poll.st].alerts_sent >= 2
                                  THEN Append(@, poll.contract) ELSE @]
    /\ UNCHANGED <<chat_state, nobjs, disk, lst, add, tmp, proc>>
    /\ Release([heap EXCEPT ![poll.st].last_price = poll.price], sink,
               [hist EXCEPT ![poll.st].failed_first = FALSE])

\* A faulty poll_job_no_alert: the updated entry is stored back under its key.
poll_job_no_alert_writes_back(pair) ==
    /\ poll.pc = "fetch" /\ ListSuspended
    /\ pair # NoPair /\ get_price_usd_from_pair(pair) # <<>>
    /\ ~within_band_raises(get_price_usd_from_pair(pair)[1])
    /\ LET price == get_price_usd_from_pair(pair)[1]
           st == with_pair(heap[poll.st], pair)
           inside == within_band(price, st.band[1], st.band[2])
           new_status == IF inside THEN "inside" ELSE "outside"
       IN  /\ ~alert_triggered(st, inside)
           /\ poll' = [poll EXCEPT !.pc = "items", !.price = <<price>>,
                    !.changed = @ \/ heap[poll.st].name = "" \/ new_status # st.status]
           /\ chat_state' = SetContracts(chat_state, poll.chat_id,
                    DictSet(Contracts_of(chat_state, poll.chat_id), poll.contract, poll.st))
           /\ UNCHANGED <<nobjs, disk, lst, add, tmp, proc>>
           /\ Release([heap EXCEPT ![poll.st] =
                            [st EXCEPT !.status = new_status, !.last_price = <<price>>]],
                      sink,
                      [hist EXCEPT ![poll.st] =
                            [span |-> IF inside THEN @.span ELSE 0, failed_first |-> FALSE]])

\* Lines 306-319 and 341-345: the price triggers no alert.
poll_job_no_alert(pair) ==
    /\ poll.pc = "fetch" /\ ListSuspended
    /\ pair # NoPair /\ get_price_usd_from_pair(pair) # <<>>
    /\ ~within_band_raises(get_price_usd_from_pair(pair)[1])
    /\ LET price == get_price_usd_from_pair(pair)[1]
           st == with_pair(heap[poll.st], pair)
           inside == within_band(price, st.band[1], st.band[2])
           new_status == IF inside THEN "inside" ELSE "outside"
       IN  /\ ~alert_triggered(st, inside)
           /\ poll' = [poll EXCEPT !.pc = "items", !.price = <<price>>,
                    !.changed = @ \/ heap[poll.st].name = "" \/ new_status # st.status]
           /\ UNCHANGED <<chat_state, nobjs, disk, lst, add, tmp, proc>>
           /\ Release([heap EXCEPT ![poll.st] =
                            [st EXCEPT !.status = new_status, !.last_price = <<price>>]],
                      sink,
                      [hist EXCEPT ![poll.st] =
                            [span |-> IF inside THEN @.span ELSE 0, failed_first |-> FALSE]])

\* ---------------------------------------------------------------- specification
Next ==
    \/ \E chat_id \in Chats, contract \in Contracts, Ls \in LowStrs, Hs \in HighStrs,
          name_given \in NamesGiven : add_cmd_begin(chat_id, contract, Ls, Hs, name_given)
    \/ \E pair \in fetch_top_pair : add_cmd_resume(pair)
    \/ \E chat_id \in Chats, contract \in Contracts : remove_cmd(chat_id, contract)
    \/ \E chat_id \in Chats : clear_cmd(chat_id)
    \/ \E chat_id \in Chats : list_cmd_begin(chat_id)
    \/ list_cmd_next
    \/ \E p \in fetch_top_pair : list_cmd_resume(p)
    \/ list_cmd_end
    \/ poll_job_start
    \/ poll_job_next_chat
    \/ poll_job_finish
    \/ poll_job_retired
    \/ poll_job_fetch
    \/ poll_job_pops
    \/ \E pair \in fetch_top_pair : poll_job_no_price(pair)
    \/ \E pair \in fetch_top_pair : poll_job_raises(pair)
    \/ poll_loop_except
    \/ \E pair \in fetch_top_pair : poll_job_alert(pair)
    \/ poll_job_sent
    \/ poll_job_send_failed
    \/ \E pair \in fetch_top_pair : poll_job_no_alert(pair)

Spec == Init /\ [][Next]_vars

\* ---------------------------------------------------------------- the poll loop alone
\* poll_loop with /add as the only command.  The event loop resumes the
\* poll_loop task whenever what it awaits is done, and each of its awaits ends:
\* asyncio.sleep after POLL_SECONDS, the price request within its timeout of
\* 10 seconds (line 129), send_message within the client's timeouts.  So the
\* task's steps are weakly fair.
PollNext ==
    \/ poll_job_start
    \/ poll_job_next_chat
    \/ poll_job_finish
    \/ poll_job_retired
    \/ poll_job_fetch
    \/ poll_job_pops
    \/ \E pair \in fetch_top_pair : poll_job_no_price(pair)
    \/ \E pair \in fetch_top_pair : poll_job_raises(pair)
    \/ poll_loop_except
    \/ \E pair \in fetch_top_pair : poll_job_alert(pair)
    \/ poll_job_sent
    \/ poll_job_send_failed
    \/ \E pair \in fetch_top_pair : poll_job_no_alert(pair)

NextLoop ==
    \/ \E chat_id \in Chats, contract \in Contracts, Ls \in LowStrs, Hs \in HighStrs,
          name_given \in NamesGiven : add_cmd_begin(chat_id, contract, Ls, Hs, name_given)
    \/ \E pair \in fetch_top_pair : add_cmd_resume(pair)
    \/ PollNext

SpecLoop == Init /\ [][NextLoop]_vars /\ WF_vars(PollNext)

\* ---------------------------------------------------------------- /add alone
\* add_cmd on a wider range of <low_usd> and <high_usd> texts: whole numbers,
\* a sub-cent price, a number of 28 digits, a negative number, for one contract
\* of one chat.
BandStrs ==
    {<<"0">>, <<"1">>, <<"2">>, <<"-", "1">>,
     <<"3", "E", "-", "7">>,
     <<"1", ".", "0", "0", "0", "0", "0", "0", "0", "0", "0", "0", "0", "0", "0", "0",
       "0", "0", "0", "0", "0", "0", "0", "0", "0", "0", "0", "0", "1">>}

NextBand ==
    \/ \E Ls \in BandStrs, Hs \in BandStrs : add_cmd_begin(1, "A", Ls, Hs, <<>>)
    \/ \E pair \in fetch_top_pair : add_cmd_resume(pair)

SpecBand == Init /\ [][NextBand]_vars

\* ---------------------------------------------------------------- the state file
\* The process and its state file, save_state() taken step by step: the
\* process starts on a state file left by an earlier run (or edited by hand),
\* load_state() reads it, /remove and /clear change the collection and save
\* it, the process may be killed at any point, and is then started again.

\* The entry documents a state file may hold: what save_state wrote for an
\* entry, with some of the Decimal texts unreadable and some of the keys missing.
Unreadable == <<"a", "b", "c">>
SubCent == <<"0", ".", "0", "0", "0", "0", "0", "0", "1", "2">>
DecimalKeys == {"L", "H", "fib75", "lo", "hi", "last_price"}
OptionalKeys == {"status", "first_tick", "alerts_sent", "pair"}
SavedEntry ==
    EntryToJson([NewEntry("TKN/SOL", Decimal(<<"1">>)[1], Decimal(<<"2">>)[1])
                    EXCEPT !.status = "inside", !.first_tick = FALSE, !.alerts_sent = 1,
                           !.pair = [url |-> "u", dex |-> "dex", base |-> "TKN", quote |-> "SOL"]])
EntryDoc(bad, missing, priced) ==
    LET st == [SavedEntry EXCEPT
                !.L = IF "L" \in bad THEN Unreadable ELSE @,
                !.H = IF "H" \in bad THEN Unreadable ELSE @,
                !.fib75 = IF "fib75" \in bad THEN Unreadable ELSE @,
                !.band = <<IF "lo" \in bad THEN Unreadable ELSE @[1],
                           IF "hi" \in bad THEN Unreadable ELSE @[2]>>,
                !.last_price = IF "last_price" \in bad THEN Unreadable
                               ELSE IF priced THEN SubCent ELSE None]
    IN  [k \in DOMAIN st \ missing |-> st[k]]
EntryDocs ==
    {EntryDoc(bad, missing, priced) :
        bad \in {{}} \cup {{k} : k \in DecimalKeys} \cup {DecimalKeys},
        missing \in {{}} \cup {{k} : k \in OptionalKeys} \cup {OptionalKeys},
        priced \in BOOLEAN}

Block(chat_key, contract, st) ==
    [chat_key |-> chat_key, contracts |-> <<[contract |-> contract, st |-> st]>>]

\* The state files: no chat, one chat with one entry, and a block whose key is
\* no chat id before or after a chat with one entry.
Snapshots ==
    {<<>>}
    \cup {<<Block(<<"1">>, "A", st)>> : st \in EntryDocs}
    \cup {<<Block(<<"x">>, "A", SavedEntry), Block(<<"1">>, "B", st)>> : st \in EntryDocs}
    \cup {<<Block(<<"1">>, "A", st), Block(<<"x">>, "B", SavedEntry)>> : st \in EntryDocs}

Starting == [pc |-> "start", data |-> <<>>]

InitPersist ==
    /\ chat_state = <<>>
    /\ heap = [o \in ObjIds |-> NoEntry]
    /\ nobjs = 0
    /\ disk \in {<<>>} \cup {<<File(data)>> : data \in Snapshots}
    /\ tmp = <<>>
    /\ proc = Starting
    /\ poll = PollIdle
    /\ lst = ListIdle
    /\ add = AddIdle
    /\ sink = [o \in ObjIds |-> 0]
    /\ hist = [o \in ObjIds |-> NoHist]

\* The entries of a collection value before chat i, counted.
RECURSIVE EntriesBefore(_, _)
EntriesBefore(value, i) ==
    IF i <= 1 THEN 0 ELSE EntriesBefore(value, i - 1) + Len(value[i - 1].contracts)

\* Lines 112-123, main()'s load_state(): without a file, or with a file json.load
\* cannot read, chat_state stays empty; else it is what _jsonable_to_state gives.
load_state ==
    /\ proc.pc = "start"
    /\ proc' = Running
    /\ IF disk = <<>> \/ disk[1].cut
       THEN UNCHANGED <<chat_state, heap, nobjs>>
       ELSE LET value == jsonable_to_state(disk[1].data)
            IN  /\ chat_state' = [i \in 1..Len(value) |->
                        [chat_id |-> value[i].chat_id,
                         contracts |-> [j \in 1..Len(value[i].contracts) |->
                            Slot(value[i].contracts[j].contract, EntriesBefore(value, i) + j)]]]
                /\ nobjs' = EntriesBefore(value, Len(value) + 1)
                /\ heap' = [o \in ObjIds |->
                        IF \E i \in 1..Len(value) : \E j \in 1..Len(value[i].contracts) :
                                EntriesBefore(value, i) + j = o
                        THEN LET i == CHOOSE i \in 1..Len(value) :
                                        \E j \in 1..Len(value[i].contracts) :
                                            EntriesBefore(value, i) + j = o
                             IN  value[i].contracts[o - EntriesBefore(value, i)].st
                        ELSE NoEntry]
    /\ UNCHANGED <<disk, tmp, poll, lst, add, sink, hist>>

\* Lines 243-249 and 103: /remove pops the key and calls save_state(), which
\* computes the document to write.
remove_cmd_saves(chat_id, contract) ==
    /\ proc.pc = "run"
    /\ chat_state' = SetContracts(ensure_chat(chat_state, chat_id), chat_id,
            DictPop(Contracts_of(ensure_chat(chat_state, chat_id), chat_id), contract))
    /\ proc' = [pc |-> "open", data |-> state_to_jsonable(chat_state', heap)]
    /\ UNCHANGED <<nobjs, disk, tmp, poll, lst, add>>
    /\ Release(heap, sink, hist)

\* Lines 292-294 and 103: /clear likewise.
clear_cmd_saves(chat_id) ==
    /\ proc.pc = "run"
    /\ chat_state' = SetContracts(ensure_chat(chat_state, chat_id), chat_id, <<>>)
    /\ proc' = [pc |-> "open", data |-> state_to_jsonable(chat_state', heap)]
    /\ UNCHANGED <<nobjs, disk, tmp, poll, lst, add>>
    /\ Release(heap, sink, hist)

\* A faulty save_state_open: the file opened for writing is STATE_PATH itself.
save_state_open_in_place ==
    /\ proc.pc = "open"
    /\ disk' = <<Partial(<<>>)>>
    /\ proc' = [proc EXCEPT !.pc = "dump"]
    /\ UNCHANGED <<chat_state, heap, nobjs, tmp, poll, lst, add, sink, hist>>

\* Lines 104-105: open(tmp, "w") creates or empties the temporary file.
save_state_open ==
    /\ proc.pc = "open"
    /\ tmp' = <<Partial(<<>>)>>
    /\ proc' = [proc EXCEPT !.pc = "dump"]
    /\ UNCHANGED <<chat_state, heap, nobjs, disk, poll, lst, add, sink, hist>>

\* Lines 105-106: json.dump writes the text piece by piece (here a chat's
\* block at a time); after the last piece the file is closed, complete.
save_state_dump ==
    /\ proc.pc = "dump" /\ tmp # <<>>
    /\ IF Len(tmp[1].data) < Len(proc.data)
       THEN /\ tmp' = <<Partial(SubSeq(proc.data, 1, Len(tmp[1].data) + 1))>>
            /\ UNCHANGED proc
       ELSE /\ tmp' = <<File(proc.data)>>
            /\ proc' = [proc EXCEPT !.pc = "replace"]
    /\ UNCHANGED <<chat_state, heap, nobjs, disk, poll, lst, add, sink, hist>>

\* Line 107: os.replace(tmp, STATE_PATH) puts the temporary file in the place
\* of the state file, in one step.
save_state_replace ==
    /\ proc.pc = "replace"
    /\ disk' = tmp
    /\ tmp' = <<>>
    /\ proc' = Running
    /\ UNCHANGED <<chat_state, heap, nobjs, poll, lst, add, sink, hist>>

\* Lines 109-110: open, a write or os.replace raised (no space, no permission);
\* the exception is caught and logged, and save_state() returns.
save_state_except ==
    /\ proc.pc \in {"open", "dump", "replace"}
    /\ proc' = Running
    /\ UNCHANGED <<chat_state, heap, nobjs, disk, tmp, poll, lst, add, sink, hist>>

\* The process is killed (at any point of main() or save_state()): its memory
\* is gone, the files are as they were.
crash ==
    /\ proc.pc # "dead"
    /\ proc' = [pc |-> "dead", data |-> <<>>]
    /\ chat_state' = <<>>
    /\ heap' = [o \in ObjIds |-> NoEntry]
    /\ nobjs' = 0
    /\ UNCHANGED <<disk, tmp, poll, lst, add, sink, hist>>

\* Lines 367-370: the process is started again.
main ==
    /\ proc.pc = "dead"
    /\ proc' = Starting
    /\ UNCHANGED <<chat_state, heap, nobjs, disk, tmp, poll, lst, add, sink, hist>>

NextPersist ==
    \/ load_state
    \/ \E chat_id \in Chats, contract \in Contracts : remove_cmd_saves(chat_id, contract)
    \/ \E chat_id \in Chats : clear_cmd_saves(chat_id)
    \/ save_state_open
    \/ save_state_dump
    \/ save_state_replace
    \/ save_state_except
    \/ crash
    \/ main

SpecPersist == InitPersist /\ [][NextPersist]_vars

\* ---------------------------------------------------------------- properties
\* chat_state[chat_id]'s keys, {} for a chat that is not in chat_state.
KeysOf(cs, chat_id) == IF chat_id \in ChatIds(cs) THEN DictKeys(Contracts_of(cs, chat_id)) ELSE {}

\* bandMin <= p <= bandMax, for the band stored in entry st.
InBand(p, st) == Decimal_le(st.band[1], p) /\ Decimal_le(p, st.band[2])

\* A step in which poll_job resumes from the fetch for entry o.
Evaluates(o) == poll.pc = "fetch" /\ poll.st = o /\ poll'.pc # "fetch"
\* ... and the fetch gave the number p as the price.
EvaluatesAt(o, p) == Evaluates(o) /\ poll'.price = <<p>>

\* The numbers the price source can quote.
Quotes == {Decimal(s)[1] : s \in {t \in PriceStrs : Decimal(t) # <<>> /\ Decimal(t)[1].special = ""}}

\* C1: no entry is sent more than two alerts, and when a cycle is over (the
\* poller sleeps) no entry that has been sent its second alert is still in the
\* collection.
C1_TwoAlertsThenRetired ==
    /\ \A o \in ObjIds : sink[o] <= 2
    /\ poll.pc = "sleep" => \A o \in Tracked(chat_state) : sink[o] < 2

\* C2: alertsSent of a tracked entry never decreases, and whenever another
\* operation can run (the poller is suspended in an await) or list_cmd shows a
\* line, no entry in the collection has alertsSent = 2.
C2_MonotoneAndAbsentAtTwo ==
    /\ [][\A o \in Tracked(chat_state) \cap Tracked(chat_state') :
            heap'[o].alerts_sent >= heap[o].alerts_sent]_vars
    /\ [](\A i \in 1..Len(lst.lines) : lst.lines[i][2] < 2)
    /\ [](PollSuspended => \A o \in Tracked(chat_state) : heap[o].alerts_sent < 2)

\* C3: when the first price obtained for an entry (it has no last_price yet)
\* is inside its band, that evaluation takes alerts_sent from 0 to 1, sets the
\* status to inside and sends exactly one alert.
C3_FirstTickAlert ==
    [][\A o \in ObjIds : \A p \in Quotes :
        (EvaluatesAt(o, p) /\ heap[o].last_price = <<>> /\ InBand(p, heap[o]))
        => /\ heap[o].alerts_sent = 0 /\ heap'[o].alerts_sent = 1
           /\ heap'[o].status = "inside"
           /\ sink'[o] = sink[o] + 1
           /\ poll'.pc = "send"]_vars

\* The first alert is being sent for an entry whose earlier fetches had failed.
C3_Witness ==
    /\ poll.pc = "send" /\ hist[poll.st].failed_first
    /\ heap[poll.st].last_price = <<>>
    /\ heap[poll.st].alerts_sent = 1 /\ sink[poll.st] = 1
    /\ InBand(poll.price[1], heap[poll.st])

\* C4: an evaluation with a price inside the band of an entry whose status is
\* already inside and whose first_tick is false sends no alert and leaves
\* alerts_sent unchanged; and over any run of evaluations inside the band (no
\* evaluation outside between them) an entry is sent at most one alert.
C4_NoRealertWhileInside ==
    /\ [][\A o \in ObjIds : \A p \in Quotes :
            (EvaluatesAt(o, p) /\ InBand(p, heap[o])
                /\ heap[o].status = "inside" /\ ~heap[o].first_tick)
            => /\ sink'[o] = sink[o]
               /\ heap'[o].alerts_sent = heap[o].alerts_sent
               /\ poll'.pc = "items"]_vars
    /\ [](\A o \in ObjIds : hist[o].span <= 1)

\* An entry already inside has just been evaluated inside again, and nothing
\* has changed in this cycle: no alert went out for it.
C4_Witness ==
    /\ poll.pc = "items" /\ poll.st # 0 /\ ~poll.changed
    /\ poll.price # <<>> /\ InBand(poll.price[1], heap[poll.st])
    /\ heap[poll.st].status = "inside" /\ heap[poll.st].last_price = poll.price
    /\ heap[poll.st].alerts_sent = 1 /\ sink[poll.st] = 1 /\ hist[poll.st].span = 1

\* C5: for an entry with alerts_sent = 1 and status inside, an evaluation
\* outside the band sets the status to outside and sends nothing; the next
\* evaluation inside the band sends the second alert (alerts_sent = 2); and
\* when the cycle that did so ends, the entry is no longer in the collection.
C5_ReentryAlertsAndRetires ==
    /\ [][\A o \in ObjIds : \A p \in Quotes :
            (EvaluatesAt(o, p) /\ ~InBand(p, heap[o])
                /\ heap[o].alerts_sent = 1 /\ heap[o].status = "inside")
            => /\ heap'[o].status = "outside" /\ heap'[o].alerts_sent = 1
               /\ sink'[o] = sink[o]]_vars
    /\ [][\A o \in ObjIds : \A p \in Quotes :
            (EvaluatesAt(o, p) /\ InBand(p, heap[o])
                /\ heap[o].alerts_sent = 1 /\ heap[o].status = "outside")
            => /\ heap'[o].alerts_sent = 2 /\ sink'[o] = sink[o] + 1]_vars
    /\ [][(poll.pc # "sleep" /\ poll'.pc = "sleep")
            => \A o \in Tracked(chat_state') : heap'[o].alerts_sent < 2]_vars

\* C6: no add with low >= high or a negative low gets an entry into the
\* collection: every tracked entry has 0 <= L < H.
C6_InvalidRangeRejected ==
    \A o \in Tracked(chat_state) : Decimal_le(Zero, heap[o].L) /\ Decimal_lt(heap[o].L, heap[o].H)

\* C7: an evaluation whose fetch gave no pair or no usable price leaves every
\* field of the entry as it was, sends no alert, queues nothing for removal,
\* leaves the collection as it was and goes on to the next entry.
C7_FailedFetchChangesNothing ==
    [][\A o \in ObjIds :
        (Evaluates(o) /\ poll'.price = <<>>)
        => /\ heap'[o] = heap[o]
           /\ sink' = sink
           /\ chat_state' = chat_state
           /\ poll'.to_remove = poll.to_remove /\ poll'.changed = poll.changed
           /\ poll'.pc = "items"]_vars

\* A fetch has just failed for a tracked entry that had already been alerted.
C7_Witness ==
    /\ poll.pc = "items" /\ poll.st # 0 /\ poll.price = <<>>
    /\ poll.st \in Tracked(chat_state)
    /\ heap[poll.st].alerts_sent = 1 /\ heap[poll.st].status = "inside"
    /\ heap[poll.st].last_price # <<>>

\* C8: when an entry's evaluation raises, nothing of the cycle is left undone:
\* no entry of the snapshots is left unevaluated, no retirement is pending and
\* no change is unsaved.
C8_FailureIsolated ==
    poll.pc = "raised" =>
        /\ poll.items = <<>> /\ poll.chats = <<>>
        /\ poll.to_remove = <<>>
        /\ ~poll.changed

\* C9: list_cmd's iteration over the collection never ends in an error.
C9_IterationCompletes == lst.pc # "raised"

\* C10: a key that is absent from a chat's collection becomes present only by
\* an add_cmd for that chat and key completing: no step of poll_job or
\* list_cmd puts a key (back) into the collection.
C10_NoResurrection ==
    [][\A chat_id \in Chats : \A c \in Contracts :
        (c \notin KeysOf(chat_state, chat_id) /\ c \in KeysOf(chat_state', chat_id))
        => /\ add.pc = "fetch" /\ add'.pc = "idle"
           /\ add.chat_id = chat_id /\ add.contract = c
           /\ heap'[DictGet(Contracts_of(chat_state', chat_id), c)].alerts_sent = 0]_vars

\* poll_job has evaluated, and updated, an entry that was removed from the
\* collection while the cycle was suspended; the key is still absent.
C10_Witness ==
    /\ poll.pc = "items" /\ poll.st # 0 /\ poll.price # <<>>
    /\ heap[poll.st].last_price = poll.price
    /\ poll.st \notin Tracked(chat_state)
    /\ poll.contract \notin KeysOf(chat_state, poll.chat_id)

\* C11: when send_message fails, nothing of the alert's transition is taken
\* back: the entry keeps status inside, first_tick false and its incremented
\* alerts_sent (every send_message call made for it, the failed one included,
\* is counted); at two alerts it is queued for removal; the cycle goes on with
\* the entries that remain; and the keys queued for removal are popped when
\* the chat's entries are done.
C11_FailedDeliveryNotRolledBack ==
    /\ [][(poll.pc = "send" /\ poll'.pc # "send" /\ poll'.send_failed)
            => /\ heap'[poll.st].status = "inside" /\ ~heap'[poll.st].first_tick
               /\ heap'[poll.st].alerts_sent = heap[poll.st].alerts_sent
               /\ heap'[poll.st].alerts_sent = sink'[poll.st]
               /\ sink'[poll.st] = sink[poll.st]
               /\ heap'[poll.st].alerts_sent >= 2
                    => \E i \in 1..Len(poll'.to_remove) : poll'.to_remove[i] = poll.contract
               /\ poll'.pc = "items" /\ poll'.items = poll.items
               /\ poll'.chats = poll.chats]_vars
    /\ [][(poll.pc = "items" /\ poll'.pc = "chats")
            => \A i \in 1..Len(poll.to_remove) :
                    poll.to_remove[i] \notin KeysOf(chat_state', poll.chat_id)]_vars

\* The second alert of an entry has just failed to be delivered: the entry
\* has alerts_sent = 2, is queued for removal, and the cycle still has an
\* entry to evaluate.
C11_Witness ==
    /\ poll.pc = "items" /\ poll.send_failed /\ poll.items # <<>>
    /\ heap[poll.st].alerts_sent = 2 /\ heap[poll.st].status = "inside"
    /\ poll.to_remove = <<poll.contract>>

\* C12: the state file never holds a partial document; whenever it changes,
\* it changes in one step (os.replace) to the complete document of the
\* collection being saved; a kill of the process leaves it as it was; and a
\* write that fails leaves it, and the collection in memory, as they were,
\* with the process running on.
C12_AtomicSave ==
    /\ [](disk # <<>> => ~disk[1].cut)
    /\ [][disk' # disk
            => /\ proc.pc = "replace" /\ proc'.pc = "run"
               /\ disk' = <<File(state_to_jsonable(chat_state, heap))>>]_vars
    /\ [][proc'.pc = "dead" => disk' = disk]_vars
    /\ [][(proc.pc \in {"open", "dump", "replace"} /\ proc'.pc = "run" /\ tmp' = tmp)
            => disk' = disk /\ chat_state' = chat_state /\ heap' = heap]_vars

\* The process was killed while json.dump was writing: the temporary file
\* holds the start of the new document, the state file the previous one.
C12_Witness ==
    /\ proc.pc = "dead"
    /\ tmp # <<>> /\ tmp[1].cut /\ Len(tmp[1].data) = 1
    /\ disk # <<>> /\ ~disk[1].cut /\ Len(disk[1].data) = 2
    /\ disk[1].data # tmp[1].data

\* C13: loading what save writes gives the collection back: every chat,
\* every entry in its order and every field, the Decimals included.
C13_RoundTrip ==
    jsonable_to_state(state_to_jsonable(chat_state, heap)) = CollectionValue(chat_state, heap)

\* The entry loaded for the entry document of contract under the block of
\* chat_key.
LoadedEntry(cs, h, chat_key, contract) ==
    h[DictGet(Contracts_of(cs, ParseInt(chat_key)[1]), contract)]

\* C19: load_state is tolerant.  For every state file: exactly the blocks
\* whose key is a chat id are loaded, with all their entries; an entry
\* without status, first_tick, alerts_sent or pair gets outside, true, 0 and
\* the empty pair; and each of L, H, fib75, the band's bounds and last_price
\* whose text is no Decimal is loaded as 0.
C19_TolerantLoad ==
    [][(proc.pc = "start" /\ proc'.pc = "run" /\ disk # <<>>)
        => LET data == disk[1].data
               good == {k \in 1..Len(data) : ParseInt(data[k].chat_key) # <<>>}
           IN  /\ ChatIds(chat_state') = {ParseInt(data[k].chat_key)[1] : k \in good}
               /\ \A k \in good :
                    /\ Len(Contracts_of(chat_state', ParseInt(data[k].chat_key)[1]))
                            = Len(data[k].contracts)
                    /\ \A j \in 1..Len(data[k].contracts) :
                        LET doc == data[k].contracts[j].st
                            st == LoadedEntry(chat_state', heap', data[k].chat_key,
                                              data[k].contracts[j].contract)
                        IN  /\ "status" \notin DOMAIN doc => st.status = "outside"
                            /\ "first_tick" \notin DOMAIN doc => st.first_tick
                            /\ "alerts_sent" \notin DOMAIN doc => st.alerts_sent = 0
                            /\ "pair" \notin DOMAIN doc => st.pair = EmptyMeta
                            /\ Decimal(doc.L) = <<>> => st.L = Zero
                            /\ Decimal(doc.H) = <<>> => st.H = Zero
                            /\ Decimal(doc.fib75) = <<>> => st.fib75 = Zero
                            /\ Decimal(doc.band[1]) = <<>> => st.band[1] = Zero
                            /\ Decimal(doc.band[2]) = <<>> => st.band[2] = Zero
                            /\ (doc.last_price # None /\ Decimal(doc.last_price) = <<>>)
                                    => st.last_price = <<Zero>>]_vars

\* ---- the remaining properties, in the order of the claims

\* A collection of two entries, one of them alerted and priced, was saved,
\* and loading the file gives the collection back.
C13_Witness ==
    /\ Cardinality(Tracked(chat_state)) = 2
    /\ \E o \in Tracked(chat_state) :
            /\ heap[o].last_price # <<>> /\ heap[o].alerts_sent = 1
            /\ heap[o].pair # EmptyMeta /\ heap[o].status = "inside"
    /\ disk = <<File(state_to_jsonable(chat_state, heap))>>
    /\ jsonable_to_state(disk[1].data) = CollectionValue(chat_state, heap)

\* The same value: neither is below the other.
SameValue(a, b) == a.special = "" /\ b.special = "" /\ Decimal_cmp(a, b) = 0

\* C14: for every entry added with 0 <= low < high, fib75 is exactly
\* low + 0.25 * (high - low), the band's bounds are exactly 0.98 * fib75 and
\* 1.02 * fib75, low < fib75 < high, and the lower bound < fib75 < the upper.
C14_BandExact ==
    \A o \in Tracked(chat_state) :
        (Decimal_le(Zero, heap[o].L) /\ Decimal_lt(heap[o].L, heap[o].H))
        => /\ SameValue(heap[o].fib75,
                    Ctx_add(heap[o].L, Ctx_mul(Quarter, Ctx_sub(heap[o].H, heap[o].L, 0), 0), 0))
           /\ SameValue(heap[o].band[1], Ctx_mul(heap[o].fib75, BandLow, 0))
           /\ SameValue(heap[o].band[2], Ctx_mul(heap[o].fib75, BandHigh, 0))
           /\ Decimal_lt(heap[o].L, heap[o].fib75) /\ Decimal_lt(heap[o].fib75, heap[o].H)
           /\ Decimal_lt(heap[o].band[1], heap[o].fib75)
           /\ Decimal_lt(heap[o].fib75, heap[o].band[2])

\* C15: the keys poll_job pops when a chat's entries are done take out of
\* the collection only entries that have reached two alerts themselves.
C15_OnlyOwnRetirement ==
    [][(poll.pc = "items" /\ poll'.pc = "chats")
        => \A o \in Tracked(chat_state) \ Tracked(chat_state') : heap[o].alerts_sent >= 2]_vars

\* C16: poll_job writes the state file only when the cycle ends, and then once;
\* every step of the cycle that changes a field of a tracked entry, or takes an
\* entry out of the collection, marks the cycle for that write; and the write
\* leaves in the file the document of the collection in memory.
C16_SavedOncePerChangedCycle ==
    /\ [][(poll' # poll /\ ~(poll.pc = "chats" /\ poll'.pc = "sleep")) => disk' = disk]_vars
    /\ [][(poll.pc = "chats" /\ poll'.pc = "sleep" /\ poll.changed)
            => disk' = <<File(state_to_jsonable(chat_state', heap'))>>]_vars
    /\ [][(poll' # poll /\ (chat_state' # chat_state
                             \/ \E o \in Tracked(chat_state) : heap'[o] # heap[o]))
            => poll'.changed]_vars

\* C17: once poll_job has evaluated an entry with a price, inside or outside
\* the band, the entry's first_tick is false.
C17_FirstTickCleared ==
    [][\A o \in ObjIds : \A p \in Quotes : EvaluatesAt(o, p) => ~heap'[o].first_tick]_vars

\* C18: what poll_job raises is caught by poll_loop, which goes to sleep; from
\* there, and so after every error, another cycle starts; cycles start again
\* and again.
C18_LoopSurvives ==
    /\ [][poll.pc = "raised" => poll'.pc \in {"raised", "sleep"}]_vars
    /\ (poll.pc = "raised") ~> (poll.pc = "sleep")
    /\ (poll.pc = "raised") ~> (poll.pc = "chats")
    /\ []<>(poll.pc = "chats")

\* poll_job has raised with entries of the cycle still to evaluate.
C18_Witness ==
    /\ poll.pc = "raised" /\ poll.items # <<>>
    /\ poll.price = <<NaNDec>>

\* C20: an alert is sent for an entry only while its key is in the chat's
\* collection: none for a key that /remove or /clear has taken out and that
\* has not been added again.
C20_NoAlertAfterRemoval ==
    [][\A o \in ObjIds :
        sink'[o] > sink[o] => poll.contract \in KeysOf(chat_state, poll.chat_id)]_vars

====
